---- MODULE Spec2Model ----
(***************************************************************************)
(* Model of the schedule ("Agenda") part of src/main.py: the time          *)
(* normaliser normalizar_horario, the CSV load/save helpers, the repair    *)
(* pipeline run on every script run (limpar_agenda,                        *)
(* corrigir_horarios_antigos, the %H:%M parse and drop, fix_ids, save_csv) *)
(* and the add / delete buttons of the Agenda tab.                         *)
(*                                                                         *)
(* Text is modelled as a sequence of one-character strings, so that the    *)
(* string operations of the code (strip, replace, split, zfill, isdigit,   *)
(* the %H:%M parse, the date-time formatting of to_csv) are computed and   *)
(* not assumed.  A missing value (pandas NaN / Python None) is the         *)
(* one-element sequence NaN, which is no text.                             *)
(***************************************************************************)
EXTENDS Integers, Sequences, FiniteSets, TLC

VARIABLES
    file,          \* data/agenda.csv: the persisted rows, every cell a text
    agenda_df,     \* the in-memory table of the current script run
    pc,            \* position of the script run: "idle" or "rendered"
    evento,        \* what the last button handler did (st.success / st.error)
    tela,          \* the six day columns drawn on the screen
    pdf,           \* the six day columns of the last generated PDF
    arg,           \* argument of the function under test (pure-function specs)
    ret            \* successive results of the function under test

vars == <<file, agenda_df, pc, evento, tela, pdf, arg, ret>>

----------------------------------------------------------------------------
(* Text (Python str) primitives *)

Digit == {"0", "1", "2", "3", "4", "5", "6", "7", "8", "9"}

\* str.strip() without arguments removes these at both ends
Whitespace == {" ", "\t"}

NaN == <<"NaN">>

None == <<"None">>

DigitVal(c) ==
    CASE c = "0" -> 0 [] c = "1" -> 1 [] c = "2" -> 2 [] c = "3" -> 3
      [] c = "4" -> 4 [] c = "5" -> 5 [] c = "6" -> 6 [] c = "7" -> 7
      [] c = "8" -> 8 [] c = "9" -> 9

DigitCh(n) ==
    CASE n = 0 -> "0" [] n = 1 -> "1" [] n = 2 -> "2" [] n = 3 -> "3"
      [] n = 4 -> "4" [] n = 5 -> "5" [] n = 6 -> "6" [] n = 7 -> "7"
      [] n = 8 -> "8" [] n = 9 -> "9"

\* isinstance(h, str)
isstr(v) == v # NaN /\ v # None

\* str.isdigit(): non-empty and every character a digit
isdigit(s) == Len(s) > 0 /\ \A i \in 1..Len(s) : s[i] \in Digit

\* int(s) of a digit text
RECURSIVE ToNat(_)
ToNat(s) ==
    IF Len(s) = 0 THEN 0
    ELSE 10 * ToNat(SubSeq(s, 1, Len(s) - 1)) + DigitVal(s[Len(s)])

\* str(n) of a natural number
RECURSIVE ToText(_)
ToText(n) ==
    IF n < 10 THEN <<DigitCh(n)>>
    ELSE Append(ToText(n \div 10), DigitCh(n % 10))

LowerCh(c) ==
    CASE c = "H" -> "h" [] c = "A" -> "a" [] c = "X" -> "x" [] OTHER -> c

\* str.lower()
lower(s) == [i \in 1..Len(s) |-> LowerCh(s[i])]

RECURSIVE lstrip(_)
lstrip(s) ==
    IF Len(s) > 0 /\ s[1] \in Whitespace THEN lstrip(Tail(s)) ELSE s

RECURSIVE rstrip(_)
rstrip(s) ==
    IF Len(s) > 0 /\ s[Len(s)] \in Whitespace
    THEN rstrip(SubSeq(s, 1, Len(s) - 1)) ELSE s

\* str.strip()
strip(s) == rstrip(lstrip(s))

\* str.replace(old, new) for a one-character old and any text new
RECURSIVE replace(_, _, _)
replace(s, old, new) ==
    IF Len(s) = 0 THEN <<>>
    ELSE (IF s[1] = old THEN new ELSE <<s[1]>>) \o replace(Tail(s), old, new)

\* c in s
contains(s, c) == \E i \in 1..Len(s) : s[i] = c

\* s.endswith(c)
endswith(s, c) == Len(s) > 0 /\ s[Len(s)] = c

\* str.split(sep) for a one-character sep: always at least one part
RECURSIVE split(_, _)
split(s, sep) ==
    IF ~contains(s, sep) THEN <<s>>
    ELSE LET i == CHOOSE k \in 1..Len(s) :
                      s[k] = sep /\ \A j \in 1..(k - 1) : s[j] # sep
         IN  <<SubSeq(s, 1, i - 1)>> \o split(SubSeq(s, i + 1, Len(s)), sep)

\* str.zfill(2) of a text without sign
zfill2(s) ==
    IF Len(s) >= 2 THEN s
    ELSE IF Len(s) = 1 THEN <<"0">> \o s
    ELSE <<"0", "0">>

----------------------------------------------------------------------------
(* normalizar_horario *)

\* a mutant: "0" + hh instead of hh.zfill(2)
normalizar_horario_prefix(h) ==
    IF ~isstr(h) THEN <<None, None>>
    ELSE
    LET h1 == replace(strip(lower(h)), " ", <<>>)
        h2 == replace(h1, "h", <<":">>)
        h3 == IF ~contains(h2, ":") THEN h2 \o <<":", "0", "0">> ELSE h2
        h4 == IF endswith(h3, ":") THEN h3 \o <<"0", "0">> ELSE h3
        partes == split(h4, ":")
    IN  IF Len(partes) # 2 THEN <<None, None>>
        ELSE
        LET hh == partes[1]
            mm == IF isdigit(partes[2]) THEN partes[2] ELSE <<"0", "0">>
        IN  IF ~isdigit(hh) THEN <<None, None>>
            ELSE LET hh2 == <<"0">> \o hh
                     mm2 == zfill2(mm)
                 IN  <<hh2 \o <<":">> \o mm2, hh2 \o <<"h">> \o mm2>>

\* a mutant: pads the minute on the right ("3" -> "30") instead of zfill
normalizar_horario_append(h) ==
    IF ~isstr(h) THEN <<None, None>>
    ELSE
    LET h1 == replace(strip(lower(h)), " ", <<>>)
        h2 == replace(h1, "h", <<":">>)
        h3 == IF ~contains(h2, ":") THEN h2 \o <<":", "0", "0">> ELSE h2
        h4 == IF endswith(h3, ":") THEN h3 \o <<"0", "0">> ELSE h3
        partes == split(h4, ":")
    IN  IF Len(partes) # 2 THEN <<None, None>>
        ELSE
        LET hh == partes[1]
            mm == IF isdigit(partes[2]) THEN partes[2] ELSE <<"0", "0">>
        IN  IF ~isdigit(hh) THEN <<None, None>>
            ELSE LET hh2 == zfill2(hh)
                     mm2 == IF Len(mm) = 1 THEN mm \o <<"0">> ELSE zfill2(mm)
                 IN  <<hh2 \o <<":">> \o mm2, hh2 \o <<"h">> \o mm2>>

normalizar_horario(h) ==
    IF ~isstr(h) THEN <<None, None>>
    ELSE
    LET h1 == replace(strip(lower(h)), " ", <<>>)
        h2 == replace(h1, "h", <<":">>)
        h3 == IF ~contains(h2, ":") THEN h2 \o <<":", "0", "0">> ELSE h2
        h4 == IF endswith(h3, ":") THEN h3 \o <<"0", "0">> ELSE h3
        partes == split(h4, ":")
    IN  IF Len(partes) # 2 THEN <<None, None>>
        ELSE
        LET hh == partes[1]
            mm == IF isdigit(partes[2]) THEN partes[2] ELSE <<"0", "0">>
        IN  IF ~isdigit(hh) THEN <<None, None>>
            ELSE LET hh2 == zfill2(hh)
                     mm2 == zfill2(mm)
                 IN  <<hh2 \o <<":">> \o mm2, hh2 \o <<"h">> \o mm2>>

----------------------------------------------------------------------------
(* CSV helpers *)

segunda == <<"s", "e", "g", "u", "n", "d", "a">>

terca == <<"t", "e", "r", "ç", "a">>

quarta == <<"q", "u", "a", "r", "t", "a">>

quinta == <<"q", "u", "i", "n", "t", "a">>

sexta == <<"s", "e", "x", "t", "a">>

sabado == <<"s", "á", "b", "a", "d", "o">>

dias == <<segunda, terca, quarta, quinta, sexta, sabado>>

cols == {"id", "dia", "horario", "horario_sort", "nome", "profissional", "duracao"}

\* pd.to_numeric(errors="coerce") of a value that is no number
NaNnum == -1

\* pd.to_datetime(errors="coerce") of a value that is no %H:%M time
NaT == [h |-> -1, m |-> -1]

\* pd.read_csv(dtype=str): an empty field is read as NaN, any other as text
ReadCell(c) == IF c = <<>> THEN NaN ELSE c

\* DataFrame.to_csv of a text column: NaN is written as the empty field
WriteCell(v) == IF v = NaN THEN <<>> ELSE v

load_csv(f) == [i \in 1..Len(f) |-> [c \in cols |-> ReadCell(f[i][c])]]

\* df[keep]: the rows whose place in the mask holds True, in their order
RECURSIVE SelectRows(_, _)
SelectRows(df, keep) ==
    IF Len(df) = 0 THEN <<>>
    ELSE (IF keep[1] THEN <<df[1]>> ELSE <<>>)
         \o SelectRows(Tail(df), Tail(keep))

----------------------------------------------------------------------------
(* limpar_agenda *)

\* DataFrame.drop_duplicates(): the first of equal rows is kept
drop_duplicates(df) ==
    SelectRows(df, [i \in 1..Len(df) |-> \A j \in 1..(i - 1) : df[j] # df[i]])

limpar_agenda(df) ==
    IF Len(df) = 0 THEN df
    ELSE
    LET AllNaN(r) == \A c \in cols : r[c] = NaN
        d1 == SelectRows(df, [i \in 1..Len(df) |-> ~AllNaN(df[i])])
        d2 == drop_duplicates(d1)
        d3 == [i \in 1..Len(d2) |->
                 [d2[i] EXCEPT !.horario = IF @ = NaN THEN <<>> ELSE @]]
    IN  SelectRows(d3, [i \in 1..Len(d3) |-> strip(d3[i].horario) # <<>>])

----------------------------------------------------------------------------
(* corrigir_horarios_antigos *)

\* the body of the loop for one row
corrigir_linha(row) ==
    IF ~isstr(row.horario) THEN row
    ELSE
    LET s == strip(row.horario)
        h_display == IF contains(s, " ")
                     THEN LET p == split(s, " ") IN p[Len(p)]
                     ELSE s
        n == normalizar_horario(h_display)
    IN  IF n[1] = None THEN row
        ELSE [row EXCEPT !.horario_sort = n[1], !.horario = n[2]]

corrigir_horarios_antigos(df) ==
    IF Len(df) = 0 THEN df
    ELSE [i \in 1..Len(df) |-> corrigir_linha(df[i])]

----------------------------------------------------------------------------
(* the load pipeline of the Agenda tab *)

\* pd.to_datetime(v, format="%H:%M", errors="coerce"): %H is one or two
\* digits up to 23, %M one or two digits up to 59, nothing else may remain
to_datetime(v) ==
    IF ~isstr(v) THEN NaT
    ELSE LET p == split(v, ":")
         IN  IF Len(p) # 2 THEN NaT
             ELSE IF ~isdigit(p[1]) \/ ~isdigit(p[2]) THEN NaT
             ELSE IF Len(p[1]) > 2 \/ Len(p[2]) > 2 THEN NaT
             ELSE IF ToNat(p[1]) > 23 \/ ToNat(p[2]) > 59 THEN NaT
             ELSE [h |-> ToNat(p[1]), m |-> ToNat(p[2])]

\* agenda_df["horario_sort"] = pd.to_datetime(...)
parse_horario_sort(df) ==
    [i \in 1..Len(df) |-> [df[i] EXCEPT !.horario_sort = to_datetime(@)]]

\* agenda_df.dropna(subset=["horario_sort"])
dropna_horario_sort(df) ==
    SelectRows(df, [i \in 1..Len(df) |-> df[i].horario_sort # NaT])

\* pd.to_numeric(v, errors="coerce")
to_numeric(v) == IF isdigit(v) THEN ToNat(v) ELSE NaNnum

\* a mutant: renumbers from 0 (range(len(df)))
fix_ids_zero(df) ==
    LET ids == [i \in 1..Len(df) |-> to_numeric(df[i].id)]
        isna == \E i \in 1..Len(df) : ids[i] = NaNnum
        duplicated == \E i, j \in 1..Len(df) : i < j /\ ids[i] = ids[j]
    IN  IF isna \/ duplicated
        THEN [i \in 1..Len(df) |-> [df[i] EXCEPT !.id = i - 1]]
        ELSE [i \in 1..Len(df) |-> [df[i] EXCEPT !.id = ids[i]]]

fix_ids(df) ==
    LET ids == [i \in 1..Len(df) |-> to_numeric(df[i].id)]
        isna == \E i \in 1..Len(df) : ids[i] = NaNnum
        duplicated == \E i, j \in 1..Len(df) : i < j /\ ids[i] = ids[j]
    IN  IF isna \/ duplicated
        THEN [i \in 1..Len(df) |-> [df[i] EXCEPT !.id = i]]
        ELSE [i \in 1..Len(df) |-> [df[i] EXCEPT !.id = ids[i]]]

\* lines 446-458: the rows that survive the cleaning, the repair and the
\* %H:%M parse, before their ids are looked at
sobreviventes(f) ==
    dropna_horario_sort(parse_horario_sort(
        corrigir_horarios_antigos(limpar_agenda(load_csv(f)))))

\* lines 446-459: what the script holds in agenda_df once the file is loaded
carregar_agenda(f) == fix_ids(sobreviventes(f))

\* two decimal digits of a number below 100
Two(n) == <<DigitCh(n \div 10), DigitCh(n % 10)>>

\* to_csv of the datetime64 column: the date alone when every value of the
\* column is at midnight, otherwise date and time with seconds
format_datetime(ts, dates_only) ==
    <<"1", "9", "0", "0", "-", "0", "1", "-", "0", "1">>
    \o (IF dates_only THEN <<>>
        ELSE <<" ">> \o Two(ts.h) \o <<":">> \o Two(ts.m) \o <<":", "0", "0">>)

\* save_csv(agenda_df, AGENDA_PATH): df.to_csv(path, index=False) of the
\* parsed table (the upload that follows only copies the file)
save_csv(df) ==
    LET dates_only == \A i \in 1..Len(df) :
                          df[i].horario_sort.h = 0 /\ df[i].horario_sort.m = 0
    IN  [i \in 1..Len(df) |->
           [c \in cols |->
              IF c = "id" THEN ToText(df[i].id)
              ELSE IF c = "horario_sort"
                   THEN format_datetime(df[i].horario_sort, dates_only)
              ELSE WriteCell(df[i][c])]]

\* add_row(AGENDA_PATH, row_dict): load the file as text, append the new
\* row, write everything back; the numbers of the new row are written as text
add_row(f, row_dict) ==
    LET df == load_csv(f)
    IN  [i \in 1..Len(df) |-> [c \in cols |-> WriteCell(df[i][c])]]
        \o <<[c \in cols |->
                IF c \in {"id", "duracao"} THEN ToText(row_dict[c])
                ELSE WriteCell(row_dict[c])]>>

----------------------------------------------------------------------------
(* the day columns of the screen and of the PDF *)

\* agenda_df[agenda_df["dia"] == dia]
dia_df(df, dia) == SelectRows(df, [i \in 1..Len(df) |-> df[i].dia = dia])

Minutos(ts) == 60 * ts.h + ts.m

\* DataFrame.sort_values("horario_sort") with the default kind="quicksort":
\* ascending by the parsed time; the order of rows with equal times is not
\* specified by that sort (only kind="mergesort"/"stable" keep it), so every
\* ascending arrangement is a possible result
sort_values(df) ==
    LET n == Len(df)
        perms == {p \in [1..n -> 1..n] : \A i, j \in 1..n : i # j => p[i] # p[j]}
        asc(p) == \A i \in 1..(n - 1) :
                      Minutos(df[p[i]].horario_sort) <= Minutos(df[p[i + 1]].horario_sort)
    IN  {[i \in 1..n |-> df[p[i]]] : p \in {q \in perms : asc(q)}}

\* the possible contents of the six day columns, each a sequence of row ids
RECURSIVE colunas(_, _)
colunas(df, k) ==
    IF k = 0 THEN {<<>>}
    ELSE {Append(c, [i \in 1..Len(o) |-> o[i].id]) :
              c \in colunas(df, k - 1), o \in sort_values(dia_df(df, dias[k]))}

SemPdf == [estado |-> "nenhum", colunas |-> <<>>]

\* gerar_pdf_agenda: a paragraph alone for an empty table, else the columns
gerar_pdf_agenda(df) ==
    IF Len(df) = 0 THEN {[estado |-> "vazio", colunas |-> <<>>]}
    ELSE {[estado |-> "tabela", colunas |-> c] : c \in colunas(df, Len(dias))}

----------------------------------------------------------------------------
(* the buttons of the Agenda tab *)

SemEvento ==
    [botao |-> "nenhum", msg |-> "nenhum", horario_raw |-> <<>>,
     nome |-> <<>>, profissional |-> <<>>, novo_id |-> 0]

RECURSIVE max_id(_)
max_id(df) ==
    IF Len(df) = 1 THEN df[1].id
    ELSE LET m == max_id(Tail(df)) IN IF df[1].id > m THEN df[1].id ELSE m

\* a mutant: the new id is the number of rows plus one, not the maximum plus one
adicionar_len(f, df, dia, horario_raw, nome, profissional, duracao) ==
    LET n == normalizar_horario(horario_raw)
    IN  IF n[1] = None
        THEN [file |-> f, msg |-> "erro_horario", novo_id |-> 0]
        ELSE IF strip(nome) = <<>> \/ strip(profissional) = <<>>
        THEN [file |-> f, msg |-> "erro_campos", novo_id |-> 0]
        ELSE LET novo_id == Len(df) + 1
             IN  [file |-> add_row(f, [id |-> novo_id, dia |-> dia,
                                       horario |-> n[2], horario_sort |-> n[1],
                                       nome |-> nome,
                                       profissional |-> profissional,
                                       duracao |-> duracao]),
                  msg |-> "sucesso", novo_id |-> novo_id]

\* a mutant: the check of nome and profissional is missing
adicionar_sem_campos(f, df, dia, horario_raw, nome, profissional, duracao) ==
    LET n == normalizar_horario(horario_raw)
    IN  IF n[1] = None
        THEN [file |-> f, msg |-> "erro_horario", novo_id |-> 0]
        ELSE LET novo_id == IF Len(df) = 0 THEN 1 ELSE max_id(df) + 1
             IN  [file |-> add_row(f, [id |-> novo_id, dia |-> dia,
                                       horario |-> n[2], horario_sort |-> n[1],
                                       nome |-> nome,
                                       profissional |-> profissional,
                                       duracao |-> duracao]),
                  msg |-> "sucesso", novo_id |-> novo_id]

\* the handler of the button "Adicionar {dia}" (lines 510-531)
adicionar(f, df, dia, horario_raw, nome, profissional, duracao) ==
    LET n == normalizar_horario(horario_raw)
    IN  IF n[1] = None
        THEN [file |-> f, msg |-> "erro_horario", novo_id |-> 0]
        ELSE IF strip(nome) = <<>> \/ strip(profissional) = <<>>
        THEN [file |-> f, msg |-> "erro_campos", novo_id |-> 0]
        ELSE LET novo_id == IF Len(df) = 0 THEN 1 ELSE max_id(df) + 1
             IN  [file |-> add_row(f, [id |-> novo_id, dia |-> dia,
                                       horario |-> n[2], horario_sort |-> n[1],
                                       nome |-> nome,
                                       profissional |-> profissional,
                                       duracao |-> duracao]),
                  msg |-> "sucesso", novo_id |-> novo_id]


----------------------------------------------------------------------------
(* bounds and the inputs drawn from them *)

\* rows of the file the program is started on
MaxFileRows == 2

\* rows the schedule may grow to by "Adicionar"
MaxRows == 3

\* largest id "Adicionar" may hand out
MaxNovoId == 4

\* number_input(..., value=45): the duration left at its default
DuracaoPadrao == 45

t_vazio == <<>>
t_1 == <<"1">>
t_2 == <<"2">>
t_01 == <<"0", "1">>
t_x == <<"x">>
t_08h00 == <<"0", "8", "h", "0", "0">>
t_0800 == <<"0", "8", ":", "0", "0">>
t_legado == <<"1", "9", "0", "0", "-", "0", "1", "-", "0", "1", " ", "0", "8", "h", "0", "0">>
t_abc == <<"a", "b", "c">>
t_0h == <<"0", "h">>
t_8h3 == <<"8", "h", "3">>
t_8 == <<"8">>
t_25 == <<"2", "5">>
t_8h75 == <<"8", "h", "7", "5">>
t_branco == <<" ">>
t_Ana == <<"A", "n", "a">>
t_Bia == <<"B", "i", "a">>
t_45 == <<"4", "5">>

\* id cells of a file: numeric, numeric with a leading zero, not numeric,
\* missing
IdCells == {t_1, t_2, t_01, t_x, t_vazio}

\* (horario, horario_sort) cells of a file: as written by "Adicionar"; legacy
\* with a date prefix and no sort key; not normalisable, with a valid sort
\* key and with none; midnight; blank horario
HorarioCells ==
    {<<t_08h00, t_0800>>, <<t_legado, t_vazio>>, <<t_abc, t_0800>>,
     <<t_0h, t_vazio>>, <<t_abc, t_vazio>>, <<t_vazio, t_0800>>}

\* a line of the file with every field empty
LinhaVazia == [c \in cols |-> t_vazio]

FileRows ==
    {[id |-> i, dia |-> segunda, horario |-> hs[1], horario_sort |-> hs[2],
      nome |-> t_Ana, profissional |-> t_Bia, duracao |-> t_45] :
         i \in IdCells, hs \in HorarioCells}
    \cup {LinhaVazia}

Files == UNION {[1..n -> FileRows] : n \in 0..MaxFileRows}

\* what the user may have typed into the form of a day when pressing
\* "Adicionar": <<dia, horario, nome, profissional>>
Forms ==
    {<<segunda, t_8h3, t_Ana, t_Bia>>, <<terca, t_8h3, t_Ana, t_Bia>>,
     <<segunda, t_8, t_Ana, t_Bia>>, <<segunda, t_25, t_Ana, t_Bia>>,
     <<terca, t_8h75, t_Ana, t_Bia>>, <<segunda, t_abc, t_Ana, t_Bia>>,
     <<segunda, t_8h3, t_branco, t_Bia>>, <<segunda, t_8h3, t_Ana, t_vazio>>,
     <<segunda, t_abc, t_branco, t_vazio>>}

----------------------------------------------------------------------------
(* the script run and its buttons *)

TelaVazia == [k \in 1..Len(dias) |-> <<>>]

Init ==
    /\ file \in Files
    /\ agenda_df = <<>>
    /\ pc = "start"
    /\ evento = SemEvento
    /\ tela = TelaVazia
    /\ pdf = SemPdf
    /\ arg = <<>>
    /\ ret = <<>>

\* the start of a script run: lines 446-461
Load ==
    /\ agenda_df' = carregar_agenda(file)
    /\ file' = save_csv(agenda_df')
    /\ pc' = "loaded"
    /\ evento' = SemEvento
    /\ tela' = TelaVazia
    /\ pdf' = SemPdf
    /\ UNCHANGED <<arg, ret>>

\* the button "Gerar PDF da agenda semanal" (lines 464-471)
GerarPdf ==
    /\ pc = "loaded"
    /\ pdf = SemPdf
    /\ pdf' \in gerar_pdf_agenda(agenda_df)
    /\ UNCHANGED <<file, agenda_df, pc, evento, tela, arg, ret>>

\* the run reaches the end of the page with no button of the tab pressed:
\* the six day columns of lines 479-487 are on the screen
Render ==
    /\ pc = "loaded"
    /\ tela' \in colunas(agenda_df, Len(dias))
    /\ pc' = "rendered"
    /\ UNCHANGED <<file, agenda_df, evento, pdf, arg, ret>>

\* the button "Adicionar {dia}" (lines 510-531); st.rerun() or the end of
\* the run leaves the next run to start
Adicionar ==
    /\ pc = "loaded"
    /\ \E form \in Forms :
          LET r == adicionar(file, agenda_df, form[1], form[2], form[3],
                             form[4], DuracaoPadrao)
          IN  /\ r.msg = "sucesso" =>
                     Len(file) < MaxRows /\ r.novo_id <= MaxNovoId
              /\ file' = r.file
              /\ evento' = [botao |-> "adicionar", msg |-> r.msg,
                            horario_raw |-> form[2], nome |-> form[3],
                            profissional |-> form[4], novo_id |-> r.novo_id]
    /\ pc' = "idle"
    /\ pdf' = SemPdf
    /\ UNCHANGED <<agenda_df, tela, arg, ret>>

\* the rows left by agenda_df[agenda_df["id"] != row["id"]]
excluir(df, id) == SelectRows(df, [i \in 1..Len(df) |-> df[i].id # id])

\* the button "Excluir" of a row (lines 489-492)
Excluir ==
    /\ pc = "loaded"
    /\ \E i \in 1..Len(agenda_df) :
          /\ agenda_df' = excluir(agenda_df, agenda_df[i].id)
          /\ file' = save_csv(agenda_df')
          /\ evento' = [SemEvento EXCEPT !.botao = "excluir", !.msg = "sucesso"]
    /\ pc' = "idle"
    /\ pdf' = SemPdf
    /\ UNCHANGED <<tela, arg, ret>>

Next == Load \/ GerarPdf \/ Render \/ Adicionar \/ Excluir

Spec == Init /\ [][Next]_vars

----------------------------------------------------------------------------
(* normalizar_horario on its own *)

\* one or two digits, then nothing, or "h" or ":" and up to two digits
HorasTxt == {<<a>> : a \in Digit} \cup {<<a, b>> : a, b \in Digit}

MinutosTxt == {<<>>} \cup HorasTxt

HorariosValidos ==
    HorasTxt \cup {hh \o <<sep>> \o mm :
                       hh \in HorasTxt, sep \in {"h", ":"}, mm \in MinutosTxt}

Parado ==
    /\ file = <<>>
    /\ agenda_df = <<>>
    /\ pc = "start"
    /\ evento = SemEvento
    /\ tela = TelaVazia
    /\ pdf = SemPdf

InitNorm == Parado /\ arg \in HorariosValidos /\ ret = <<>>

Normalizar ==
    /\ ret = <<>>
    /\ ret' = <<normalizar_horario(arg)>>
    /\ UNCHANGED <<file, agenda_df, pc, evento, tela, pdf, arg>>

NextNorm == Normalizar

SpecNorm == InitNorm /\ [][NextNorm]_vars

----------------------------------------------------------------------------
(* corrigir_horarios_antigos on its own *)

\* longest horario text tried
MaxLen == 4

Alfabeto == {"8", "3", "h", "H", ":", " ", "\t", "x"}

Textos == UNION {[1..n -> Alfabeto] : n \in 0..MaxLen}

\* one-row tables with every text as horario, or a value that is no text,
\* and with or without a stored sort key
UmaLinha ==
    {<<[horario |-> h, horario_sort |-> hs]>> :
         h \in Textos \cup {NaN}, hs \in {NaN, t_0800}}

\* some tables of two rows, and the empty table
DuasLinhas ==
    {<<[horario |-> h1, horario_sort |-> NaN],
       [horario |-> h2, horario_sort |-> t_0800]>> :
         h1 \in {t_legado, t_8h3, t_abc}, h2 \in {t_08h00, t_25, NaN}}

Tabelas == UmaLinha \cup DuasLinhas \cup {<<>>}

InitRepair == Parado /\ arg \in Tabelas /\ ret = <<>>

Corrigir ==
    /\ Len(ret) < 2
    /\ ret' = Append(ret, corrigir_horarios_antigos(
                              IF ret = <<>> THEN arg ELSE ret[Len(ret)]))
    /\ UNCHANGED <<file, agenda_df, pc, evento, tela, pdf, arg>>

NextRepair == Corrigir

SpecRepair == InitRepair /\ [][NextRepair]_vars

----------------------------------------------------------------------------
(* the claims *)

\* text of the form DDhDD
IsHHhMM(t) ==
    /\ Len(t) = 5
    /\ t[1] \in Digit /\ t[2] \in Digit /\ t[3] = "h"
    /\ t[4] \in Digit /\ t[5] \in Digit

\* text of the form DD:DD
IsHHMM(t) ==
    /\ Len(t) = 5
    /\ t[1] \in Digit /\ t[2] \in Digit /\ t[3] = ":"
    /\ t[4] \in Digit /\ t[5] \in Digit

\* the step of a behaviour that is a load/save cycle
IsLoadStep == pc' = "loaded" /\ pdf' = SemPdf

\* the ids of the persisted rows, as numbers
FileIds(f) == [i \in 1..Len(f) |-> to_numeric(f[i].id)]

\* C1: once a load/save cycle has run, every persisted row has a display
\* time of the form HHhMM and a sort-key time of the form HH:MM.
C1_CanonicalAfterOneCycle ==
    pc = "loaded" =>
        \A i \in 1..Len(file) :
            IsHHhMM(file[i].horario) /\ IsHHMM(file[i].horario_sort)

C3_IdsUnique ==
    pc # "start" =>
        \A i, j \in 1..Len(file) :
            i # j => /\ file[i].id # file[j].id
                     /\ to_numeric(file[i].id) # to_numeric(file[j].id)

\* an entry was added after the row with the smaller of two ids was deleted
C3_Witness ==
    /\ pc = "idle"
    /\ evento.botao = "adicionar" /\ evento.msg = "sucesso"
    /\ Len(file) = 2
    /\ FileIds(file) = <<2, 3>>

\* C4: every row that survives the load pipeline shows the time its sort key
\* holds: the display time is the sort key with "h" for ":".
C4_DisplayMatchesSortKey ==
    pc = "loaded" =>
        \A i \in 1..Len(agenda_df) :
            agenda_df[i].horario =
                Two(agenda_df[i].horario_sort.h) \o <<"h">>
                \o Two(agenda_df[i].horario_sort.m)

\* C5: "Adicionar" pressed with a time normalizar_horario rejects, or with a
\* nome or profissional that is empty once stripped, reports an error and
\* leaves the persisted schedule as it was.
C5_RejectedAddKeepsFile ==
    [][(/\ pc = "loaded"
        /\ evento'.botao = "adicionar"
        /\ \/ normalizar_horario(evento'.horario_raw)[1] = None
           \/ strip(evento'.nome) = <<>>
           \/ strip(evento'.profissional) = <<>>)
       => /\ evento'.msg \in {"erro_horario", "erro_campos"}
          /\ file' = file]_vars

\* a form with a good time and a blank nome was turned down on a schedule
\* that holds rows
C5_Witness ==
    /\ pc = "idle"
    /\ evento.botao = "adicionar"
    /\ evento.msg = "erro_campos"
    /\ evento.horario_raw = t_8h3
    /\ evento.nome = t_branco
    /\ Len(file) > 0

\* C6: corrigir_horarios_antigos applied twice gives the rows it gives
\* applied once.
C6_RepairIdempotent == Len(ret) = 2 => ret[2] = ret[1]

\* the repair ran twice on a row with a date prefix, which it rewrote
C6_Witness ==
    /\ Len(ret) = 2
    /\ Len(arg) = 1
    /\ arg[1].horario = <<"x", " ", "8", "h">>
    /\ ret[1][1].horario = t_08h00
    /\ ret[1][1].horario_sort = t_0800

\* the digits of s up to its first character that is no digit
RECURSIVE DigitosIniciais(_)
DigitosIniciais(s) ==
    IF Len(s) = 0 \/ s[1] \notin Digit THEN <<>>
    ELSE <<s[1]>> \o DigitosIniciais(Tail(s))

\* the digits of s after its first character that is no digit
RECURSIVE DigitosFinais(_)
DigitosFinais(s) ==
    IF Len(s) = 0 THEN <<>>
    ELSE IF s[1] \notin Digit THEN Tail(s)
    ELSE DigitosFinais(Tail(s))

\* C7: for one or two digits, optionally followed by "h" or ":" and up to two
\* digits, normalizar_horario returns DD:DD and DDhDD with the hour and the
\* minute of the input, a missing minute counting as 0.
C7_ValidInputsNormalized ==
    Len(ret) = 1 =>
        LET sort == ret[1][1]
            display == ret[1][2]
            hora == ToNat(DigitosIniciais(arg))
            minuto == ToNat(DigitosFinais(arg))
        IN  /\ IsHHMM(sort)
            /\ IsHHhMM(display)
            /\ ToNat(SubSeq(sort, 1, 2)) = hora
            /\ ToNat(SubSeq(sort, 4, 5)) = minuto
            /\ ToNat(SubSeq(display, 1, 2)) = hora
            /\ ToNat(SubSeq(display, 4, 5)) = minuto

\* normalizar_horario has turned "8h3" into ("08:03", "08h03")
C7_Witness ==
    /\ arg = t_8h3
    /\ ret = << << <<"0", "8", ":", "0", "3">>, <<"0", "8", "h", "0", "3">> >> >>

\* the row of the loaded table with the given id, and its place in the table
PosDe(df, id) == CHOOSE i \in 1..Len(df) : df[i].id = id

\* a day column is ascending by parsed time, rows of equal time in the
\* order of the loaded table
ColunaEstavel(df, col) ==
    \A i, j \in 1..Len(col) :
        i < j =>
            LET a == PosDe(df, col[i])
                b == PosDe(df, col[j])
            IN  /\ Minutos(df[a].horario_sort) <= Minutos(df[b].horario_sort)
                /\ Minutos(df[a].horario_sort) = Minutos(df[b].horario_sort)
                       => a < b

\* C8: on the screen and in the PDF every day column is ascending by parsed
\* time, and rows of the same day with the same time keep the order of the
\* loaded table.
C8_DayColumnsStable ==
    /\ pc = "rendered" =>
           \A k \in 1..Len(dias) : ColunaEstavel(agenda_df, tela[k])
    /\ pdf.estado = "tabela" =>
           \A k \in 1..Len(dias) : ColunaEstavel(agenda_df, pdf.colunas[k])

\* C9: an entry "Adicionar" has accepted and appended is in the persisted
\* schedule after the next load/save cycle.
C9_AcceptedEntryKept ==
    [][(/\ pc = "idle"
        /\ evento.botao = "adicionar" /\ evento.msg = "sucesso"
        /\ IsLoadStep)
       => \E i \in 1..Len(file') :
              /\ file'[i].id = ToText(evento.novo_id)
              /\ file'[i].horario = normalizar_horario(evento.horario_raw)[2]]_vars

\* C10: a load/save cycle that follows a load/save cycle, with no add and no
\* delete between them, persists what the first persisted.
C10_SecondCycleChangesNothing ==
    [][(pc \in {"loaded", "rendered"} /\ IsLoadStep) => file' = file]_vars

====
